---- MODULE Spec2Model ----
(***************************************************************************)
(* Contacts background tasks (backend/contacts/tasks.py) as a state        *)
(* machine: the Contact and ContactInteraction tables, the external        *)
(* Booking table, and one action per task invocation.                      *)
(*                                                                         *)
(* Text is a sequence of one-character strings (emails, names) or of       *)
(* opaque tokens (free text); "" is the empty sequence.  None is NoDate    *)
(* for last_booking_date.  Every ORM write is its own commit (the tasks    *)
(* open no transaction), so a storage fault at one write leaves the        *)
(* earlier writes of the same task in place.  Spec and SpecImport run the  *)
(* tasks one at a time; SpecRace runs two of them on concurrent workers,   *)
(* one step per database access.                                           *)
(***************************************************************************)
EXTENDS Integers, Sequences, FiniteSets, TLC

VARIABLES
    contacts,       \* Contact table: id -> row
    nextId,         \* next Contact primary key
    interactions,   \* ContactInteraction table: id -> row
    nextIid,        \* next ContactInteraction primary key
    bookings,       \* Booking table (external): set of ids of BookingRows present
    report,         \* the dict returned by the last task
    lastOp,         \* history: the last task invocation and its arguments
    preContacts,    \* history: Contact table when the last task started
    preInteractions,\* history: ContactInteraction table when the last task started
    ops,            \* number of task invocations so far
    running         \* tasks in progress on concurrent workers: slot -> local state

vars == <<contacts, nextId, interactions, nextIid, bookings, report, lastOp,
          preContacts, preInteractions, ops, running>>

----------------------------------------------------------------------------
\* Bounds of the model

MaxOps == 3
MaxImports == 2
MaxRows == 2
MaxDups == 2

----------------------------------------------------------------------------
\* Values

NoDate == 0
ErrorCap == 10

Users == {1, 2}
OrganizerIds == {1, 2, 3}

Min(a, b) == IF a < b THEN a ELSE b

\* str.lower() over the alphabet of the model
Lower(ch) == IF ch = "A" THEN "a" ELSE ch

RECURSIVE LowerStr(_)
LowerStr(s) == IF s = <<>> THEN <<>> ELSE <<Lower(Head(s))>> \o LowerStr(Tail(s))

RECURSIVE LStrip(_)
LStrip(s) == IF s # <<>> /\ Head(s) = " " THEN LStrip(Tail(s)) ELSE s

RECURSIVE RStrip(_)
RStrip(s) == IF s # <<>> /\ s[Len(s)] = " " THEN RStrip(SubSeq(s, 1, Len(s) - 1)) ELSE s

\* str.strip()
Strip(s) == RStrip(LStrip(s))

Contains(s, ch) == \E i \in 1..Len(s) : s[i] = ch

\* s.split('@')[-1]: what follows the last '@' (the whole string when there is none)
AfterLastAt(s) ==
    LET ats == {i \in 1..Len(s) : s[i] = "@"}
        last == IF ats = {} THEN 0 ELSE CHOOSE i \in ats : \A j \in ats : j <= i
    IN SubSeq(s, last + 1, Len(s))

\* row.get(key, '') where the code passes the stored value as the default
RowGetBlank(row, key, default) == IF key \in DOMAIN row THEN row[key] ELSE <<>>

\* row.get(key, default) on the dict csv.DictReader yields
RowGet(row, key, default) == IF key \in DOMAIN row THEN row[key] ELSE default

\* row.get('email', '').strip().lower()
NormalizeEmail(row) == LowerStr(Strip(RowGet(row, "email", <<>>)))

\* the negation of: '@' not in email or '.' not in email.split('@')[-1]
EmailShapeOk(email) == Contains(email, "@") /\ Contains(AfterLastAt(email), ".")

\* [tag.strip() for tag in tags_str.split(',') if tag.strip()]; a tags cell is the
\* sequence of its comma-separated pieces, the stored list is kept as a set
ParseTags(pieces) == {Strip(pieces[i]) : i \in {j \in 1..Len(pieces) : Strip(pieces[j]) # <<>>}}

\* needle in haystack, for str
IsSubstring(needle, hay) ==
    \E i \in 0..(Len(hay) - Len(needle)) : SubSeq(hay, i + 1, i + Len(needle)) = needle

----------------------------------------------------------------------------
\* process_contact_import

\* line 27, `for row in reader:`, binds no row_num, and no other scope does: every
\* f-string that reads it (lines 31, 37, 86, 87) raises NameError
RowNumBound == FALSE

TextColumns == {"first_name", "last_name", "phone", "company", "job_title", "notes"}

\* Contact.objects.create: the columns the caller does not pass take the model's
\* defaults (no bookings, no date)
NewContact(org, email, row) ==
    [organizer |-> org, email |-> email,
     first_name |-> RowGet(row, "first_name", <<>>),
     last_name |-> RowGet(row, "last_name", <<>>),
     phone |-> RowGet(row, "phone", <<>>),
     company |-> RowGet(row, "company", <<>>),
     job_title |-> RowGet(row, "job_title", <<>>),
     notes |-> RowGet(row, "notes", <<>>),
     tags |-> ParseTags(RowGet(row, "tags", <<>>)),
     total_bookings |-> 0, last_booking_date |-> NoDate]

\* lines 50-61: the fields of existing_contact after the row is applied
UpdatedContact(c, row) ==
    [c EXCEPT !.first_name = RowGet(row, "first_name", c.first_name),
              !.last_name = RowGet(row, "last_name", c.last_name),
              !.phone = RowGet(row, "phone", c.phone),
              !.company = RowGet(row, "company", c.company),
              !.job_title = RowGet(row, "job_title", c.job_title),
              !.notes = RowGet(row, "notes", c.notes),
              !.tags = IF RowGet(row, "tags", <<>>) # <<>>
                       THEN ParseTags(RowGet(row, "tags", <<>>)) ELSE c.tags]

\* a lookup that does not observe the latest insert
FindContactBehind(cs, org, email) ==
    LET m == {i \in DOMAIN cs : /\ cs[i].organizer = org /\ cs[i].email = email
                                /\ \E j \in DOMAIN cs : j > i}
    IN IF m = {} THEN 0 ELSE CHOOSE i \in m : \A j \in m : i <= j

\* Contact.objects.filter(organizer=..., email=...).first(): lowest primary key
FindContact(cs, org, email) ==
    LET m == {i \in DOMAIN cs : cs[i].organizer = org /\ cs[i].email = email}
    IN IF m = {} THEN 0 ELSE CHOOSE i \in m : \A j \in m : i <= j

\* lines 29-84, the body of the inner try for one row; faulty: the row's write
\* (create or save) raises.  outcome: reject (the row wants an error recorded),
\* created, updated, skipped, fallthrough (line 65 false: nothing counted),
\* exception (the write raised)
ProcessRow(cs, nid, org, row, skip, upd, faulty) ==
    LET email == NormalizeEmail(row)
        id == FindContact(cs, org, email)
        same(o) == [contacts |-> cs, nextId |-> nid, outcome |-> o]
    IN IF email = <<>> THEN same("reject")
       ELSE IF ~EmailShapeOk(email) THEN same("reject")
       ELSE IF id # 0 THEN
            IF upd THEN
                IF faulty THEN same("exception")
                ELSE [contacts |-> [cs EXCEPT ![id] = UpdatedContact(cs[id], row)],
                      nextId |-> nid, outcome |-> "updated"]
            ELSE IF skip THEN same("skipped")
            ELSE same("fallthrough")
       ELSE IF faulty THEN same("exception")
       ELSE [contacts |-> cs @@ (nid :> NewContact(org, email, row)),
             nextId |-> nid + 1, outcome |-> "created"]

\* lines 27-89: the loop from row i on.  st carries the table, the counters of the
\* code and two counts the code does not keep: processed (rows whose body was
\* entered) and failedRows (rows whose body rejected the row or raised).  A
\* rejected row evaluates an f-string over row_num before it records anything, so
\* with row_num unbound it raises inside the try; the handler of line 85 reads
\* row_num again (line 86) and its NameError leaves the loop.
RECURSIVE ImportLoop(_, _, _, _, _, _, _)
ImportLoop(st, org, rows, i, skip, upd, fault) ==
    IF i > Len(rows) THEN st
    ELSE
        LET r == ProcessRow(st.contacts, st.nextId, org, rows[i], skip, upd, fault = i)
            raised == r.outcome = "exception" \/ (r.outcome = "reject" /\ ~RowNumBound)
            failed == IF r.outcome \in {"exception", "reject"} THEN 1 ELSE 0
            next == [st EXCEPT !.contacts = r.contacts, !.nextId = r.nextId,
                               !.processed = i,
                               !.failedRows = st.failedRows + failed]
        IN IF raised /\ ~RowNumBound THEN [next EXCEPT !.aborted = TRUE]
           ELSE IF raised \/ r.outcome = "reject"
                THEN ImportLoop([next EXCEPT !.errors = @ + 1, !.skipped = @ + 1],
                                org, rows, i + 1, skip, upd, fault)
           ELSE IF r.outcome = "created"
                THEN ImportLoop([next EXCEPT !.created = @ + 1],
                                org, rows, i + 1, skip, upd, fault)
           ELSE IF r.outcome = "updated"
                THEN ImportLoop([next EXCEPT !.updated = @ + 1],
                                org, rows, i + 1, skip, upd, fault)
           ELSE IF r.outcome = "skipped"
                THEN ImportLoop([next EXCEPT !.skipped = @ + 1],
                                org, rows, i + 1, skip, upd, fault)
           ELSE ImportLoop(next, org, rows, i + 1, skip, upd, fault)

\* lines 90-103 (the loop ended) and 110-115 (an exception left it)
ImportReport(st) ==
    IF st.aborted THEN [status |-> "error", message |-> "exception"]
    ELSE [status |-> IF st.errors > 0 THEN "partial_success" ELSE "success",
          message |-> "completed",
          created_count |-> st.created, updated_count |-> st.updated,
          skipped_count |-> st.skipped, errors |-> Min(st.errors, ErrorCap)]

\* the whole task: [contacts, nextId, report, done]; done is what the loop did
\* (rows entered, rows failed, contacts created, contacts updated), returned or not
ImportResult(cs, nid, org, rows, skip, upd, fault) ==
    IF org \notin Users
    THEN [contacts |-> cs, nextId |-> nid,
          done |-> [processed |-> 0, failedRows |-> 0, created |-> 0, updated |-> 0],
          report |-> [status |-> "error", message |-> "organizer_not_found"]]
    ELSE LET st == ImportLoop([contacts |-> cs, nextId |-> nid, created |-> 0,
                               updated |-> 0, skipped |-> 0, errors |-> 0,
                               processed |-> 0, failedRows |-> 0, aborted |-> FALSE],
                              org, rows, 1, skip, upd, fault)
         IN [contacts |-> st.contacts, nextId |-> st.nextId,
             done |-> [processed |-> st.processed, failedRows |-> st.failedRows,
                       created |-> st.created, updated |-> st.updated],
             report |-> ImportReport(st)]

----------------------------------------------------------------------------
\* merge_contact_data

\* the date of the duplicate read last, whatever the running date
MergeDateLastWins(latest, d) == IF d # NoDate THEN d ELSE latest

\* lines 135-137: the running latest date after one duplicate
MergeDate(latest, d) ==
    IF d # NoDate /\ (latest = NoDate \/ d > latest) THEN d ELSE latest

\* lines 143-146
MergeTags(ptags, dtags) == IF dtags # {} THEN ptags \cup dtags ELSE ptags

\* lines 149-153
MergeNotes(pnotes, d) ==
    IF d.notes # <<>> /\ ~IsSubstring(d.notes, pnotes)
    THEN IF pnotes # <<>>
         THEN pnotes \o <<"--- Merged from ">> \o d.email \o <<" ---">> \o d.notes
         ELSE d.notes
    ELSE pnotes

\* the reassignment left out
ReassignNothing(ints, from, to) == ints

\* line 140: ContactInteraction.objects.filter(contact=duplicate).update(contact=primary)
Reassign(ints, from, to) ==
    [i \in DOMAIN ints |->
        IF ints[i].contact = from THEN [ints[i] EXCEPT !.contact = to] ELSE ints[i]]

\* lines 130-153: the loop from the k-th duplicate of the iteration order on.  dups
\* is the queryset as evaluated when the loop starts; fault = k: the k-th
\* reassignment raises, the earlier ones are committed
RECURSIVE MergeLoop(_, _, _, _, _, _)
MergeLoop(st, pid, dups, order, k, fault) ==
    IF k > Len(order) THEN st
    ELSE IF fault = k THEN [st EXCEPT !.aborted = TRUE]
    ELSE LET d == dups[order[k]]
         IN MergeLoop([st EXCEPT
                          !.total = @ + d.total_bookings,
                          !.latest = MergeDate(@, d.last_booking_date),
                          !.interactions = Reassign(@, order[k], pid),
                          !.primary = [@ EXCEPT !.tags = MergeTags(@, d.tags),
                                                !.notes = MergeNotes(@, d)]],
                      pid, dups, order, k + 1, fault)

\* lines 156-158: the primary as saved
MergedPrimary(primary, total, latest) ==
    [primary EXCEPT !.total_bookings = @ + total,
                    !.last_booking_date = IF latest # NoDate THEN latest ELSE @]

\* line 162: duplicate_contacts.delete() runs the id__in query again and removes
\* what it finds, with the interactions that still reference a removed contact
DeleteContacts(cs, ids) == [i \in (DOMAIN cs) \ ids |-> cs[i]]

DeleteInteractionsOf(ints, ids) ==
    [i \in {j \in DOMAIN ints : ints[j].contact \notin ids} |-> ints[i]]

\* lines 164-168
MergedCount(ids, resolved) == Cardinality(ids)

\* the whole task: [contacts, interactions, report].  order: the order in which the
\* database returns the duplicates (the query has no order_by).  fault: 0 none,
\* k <= n the k-th reassignment, n + 1 the save of the primary, n + 2 the delete
MergeResult(cs, ints, pid, ids, order, fault) ==
    IF pid \notin DOMAIN cs
    THEN [contacts |-> cs, interactions |-> ints,
          report |-> [status |-> "error", message |-> "primary_not_found"]]
    ELSE
        LET n == Len(order)
            st == MergeLoop([primary |-> cs[pid], total |-> 0,
                             latest |-> cs[pid].last_booking_date,
                             interactions |-> ints, aborted |-> FALSE],
                            pid, cs, order, 1, fault)
            saved == [cs EXCEPT ![pid] = MergedPrimary(st.primary, st.total, st.latest)]
            failed == [status |-> "error", message |-> "exception"]
        IN IF st.aborted \/ fault = n + 1
           THEN [contacts |-> cs, interactions |-> st.interactions, report |-> failed]
           ELSE IF fault = n + 2
           THEN [contacts |-> saved, interactions |-> st.interactions, report |-> failed]
           ELSE [contacts |-> DeleteContacts(saved, ids),
                 interactions |-> DeleteInteractionsOf(st.interactions, ids),
                 report |-> [status |-> "success", message |-> "merged",
                             merged_count |-> MergedCount(ids, {order[k] : k \in 1..n})]]

----------------------------------------------------------------------------
\* The Booking table (apps.events, external): the rows that may exist

EmailA == <<"a", "@", "b", ".", "c">>
EmailARaw == <<" ", "A", "@", "b", ".", "c">>
EmailAUpper == <<"A", "@", "b", ".", "c">>
EmailD == <<"d", "@", "b", ".", "c">>
EmailBad == <<"a", "b">>
EmailTwoAt == <<"a", "@", "@", "b", ".", "c">>

BookingRows ==
    (1 :> [organizer |-> 1, invitee_email |-> EmailA, status |-> "confirmed",
           start_time |-> 2, invitee_name |-> <<"J", " ", "D">>, invitee_phone |-> <<"5">>])
 @@ (2 :> [organizer |-> 1, invitee_email |-> EmailA, status |-> "confirmed",
           start_time |-> 1, invitee_name |-> <<>>, invitee_phone |-> <<>>])
 @@ (3 :> [organizer |-> 1, invitee_email |-> EmailAUpper, status |-> "confirmed",
           start_time |-> 1, invitee_name |-> <<"J">>, invitee_phone |-> <<>>])
 @@ (4 :> [organizer |-> 1, invitee_email |-> EmailD, status |-> "cancelled",
           start_time |-> 2, invitee_name |-> <<"D">>, invitee_phone |-> <<>>])
 @@ (5 :> [organizer |-> 2, invitee_email |-> EmailA, status |-> "confirmed",
           start_time |-> 1, invitee_name |-> <<"J">>, invitee_phone |-> <<>>])

BookingIds == DOMAIN BookingRows

----------------------------------------------------------------------------
\* update_single_contact_booking_stats

\* Booking.objects.filter(organizer=..., invitee_email=..., status='confirmed')
ConfirmedBookings(bk, org, email) ==
    {b \in bk : /\ BookingRows[b].organizer = org
                /\ BookingRows[b].invitee_email = email
                /\ BookingRows[b].status = "confirmed"}

\* bookings.order_by('-start_time').first().start_time, None when there is none
LatestStart(bs) ==
    IF bs = {} THEN NoDate
    ELSE LET b == CHOOSE x \in bs :
                    \A y \in bs : BookingRows[y].start_time <= BookingRows[x].start_time
         IN BookingRows[b].start_time

\* the count added to the stored total instead of replacing it
SyncedContactAdding(c, bk) ==
    LET bs == ConfirmedBookings(bk, c.organizer, c.email)
    IN [c EXCEPT !.total_bookings = @ + Cardinality(bs),
                 !.last_booking_date = LatestStart(bs)]

\* lines 201-202: the contact as saved
SyncedContact(c, bk) ==
    LET bs == ConfirmedBookings(bk, c.organizer, c.email)
    IN [c EXCEPT !.total_bookings = Cardinality(bs),
                 !.last_booking_date = LatestStart(bs)]

\* the whole task: [contacts, report]; faulty: contact.save() raises
SyncOneResult(cs, bk, cid, faulty) ==
    IF cid \notin DOMAIN cs
    THEN [contacts |-> cs, report |-> [status |-> "error", message |-> "contact_not_found"]]
    ELSE IF faulty
    THEN [contacts |-> cs, report |-> [status |-> "error", message |-> "exception"]]
    ELSE [contacts |-> [cs EXCEPT ![cid] = SyncedContact(cs[cid], bk)],
          report |-> [status |-> "success", message |-> "updated",
                      total_bookings |->
                          Cardinality(ConfirmedBookings(bk, cs[cid].organizer, cs[cid].email))]]

----------------------------------------------------------------------------
\* update_contact_booking_stats

\* lines 245-247: the condition under which the sweep writes the contact;
\* last_booking is truthy when a confirmed booking exists
NeedsSync(c, bk) ==
    LET bs == ConfirmedBookings(bk, c.organizer, c.email)
    IN \/ c.total_bookings # Cardinality(bs)
       \/ (bs # {} /\ c.last_booking_date # LatestStart(bs))

\* lines 233-251, one contact of the sweep
BatchSyncedContact(c, bk) == IF NeedsSync(c, bk) THEN SyncedContact(c, bk) ELSE c

\* the whole task: [contacts, report].  The task has no handler: when the save of
\* contact `at` raises, the exception leaves the task with the contacts the loop
\* had reached (before) written; at = 0: no save raises
SyncAllResult(cs, bk, before, at) ==
    IF at = 0
    THEN [contacts |-> [i \in DOMAIN cs |-> BatchSyncedContact(cs[i], bk)],
          report |-> [status |-> "success", message |-> "updated",
                      updated_count |->
                          Cardinality({i \in DOMAIN cs : NeedsSync(cs[i], bk)})]]
    ELSE [contacts |-> [i \in DOMAIN cs |->
                           IF i \in before THEN BatchSyncedContact(cs[i], bk) ELSE cs[i]],
          report |-> [status |-> "raised"]]

----------------------------------------------------------------------------
\* create_contact_from_booking

\* lines 268-273: name.strip().split(' ', 1)
SplitName(name) ==
    LET s == Strip(name)
        sp == {i \in 1..Len(s) : s[i] = " "}
        at == IF sp = {} THEN 0 ELSE CHOOSE i \in sp : \A j \in sp : i <= j
    IN IF name = <<>> THEN [first |-> <<>>, last |-> <<>>]
       ELSE IF at = 0 THEN [first |-> s, last |-> <<>>]
       ELSE [first |-> SubSeq(s, 1, at - 1), last |-> SubSeq(s, at + 1, Len(s))]

\* lines 276-284: the key of get_or_create is the booking's email as it stands
BookingContactEmail(b) == b.invitee_email

\* lines 287-293: the statistics written to the contact
BookingStats(c, b, bk) ==
    [c EXCEPT !.total_bookings =
                  Cardinality(ConfirmedBookings(bk, b.organizer, b.invitee_email)),
              !.last_booking_date = b.start_time]

\* the whole task: [contacts, nextId, interactions, nextIid, report].  fault: 0 none,
\* 1 the insert of get_or_create, 2 contact.save(), 3 the insert of the interaction
CreateFromBookingResult(cs, nid, ints, niid, bk, bid, fault) ==
    LET failed(c, n) == [contacts |-> c, nextId |-> n, interactions |-> ints,
                         nextIid |-> niid,
                         report |-> [status |-> "error", message |-> "exception"]]
    IN IF bid \notin bk
       THEN [contacts |-> cs, nextId |-> nid, interactions |-> ints, nextIid |-> niid,
             report |-> [status |-> "error", message |-> "booking_not_found"]]
       ELSE
        LET b == BookingRows[bid]
            email == BookingContactEmail(b)
            m == {i \in DOMAIN cs : cs[i].organizer = b.organizer /\ cs[i].email = email}
            created == m = {}
            nm == SplitName(b.invitee_name)
            id == IF created THEN nid ELSE CHOOSE i \in m : TRUE
            got == IF created
                   THEN cs @@ (nid :> NewContact(b.organizer, email,
                                  [first_name |-> nm.first, last_name |-> nm.last,
                                   phone |-> b.invitee_phone]))
                   ELSE cs
            nid2 == IF created THEN nid + 1 ELSE nid
            saved == [got EXCEPT ![id] = BookingStats(got[id], b, bk)]
        IN IF Cardinality(m) > 1 THEN failed(cs, nid)
           ELSE IF created /\ fault = 1 THEN failed(cs, nid)
           ELSE IF fault = 2 THEN failed(got, nid2)
           ELSE IF fault = 3 THEN failed(saved, nid2)
           ELSE [contacts |-> saved, nextId |-> nid2,
                 interactions |-> ints @@ (niid :> [contact |-> id,
                                                    organizer |-> b.organizer,
                                                    booking |-> bid]),
                 nextIid |-> niid + 1,
                 report |-> [status |-> "success", message |-> "upserted",
                             created |-> created]]

----------------------------------------------------------------------------
\* Inputs of the tasks

\* rows as csv.DictReader yields them: a key per header column
RowA == [email |-> EmailA, first_name |-> <<"Al">>, company |-> <<"Acme">>]
RowA2 == [email |-> EmailARaw, first_name |-> <<"Al2">>, notes |-> <<"n2">>]
RowD == [email |-> EmailD, notes |-> <<"n1">>, tags |-> << <<"v">>, <<" ", "g">>, <<" ">> >>]
RowBad == [email |-> EmailBad, first_name |-> <<"Al">>]
RowNoEmail == [first_name |-> <<"Al">>]
RowD2 == [email |-> EmailD, company |-> <<>>, tags |-> <<>>]
RowTwoAt == [email |-> EmailTwoAt]

Rows == {RowA, RowA2, RowD, RowD2, RowBad, RowNoEmail, RowTwoAt}

Batches == UNION {[1..n -> Rows] : n \in 1..MaxRows}

\* the batches the imports of Spec draw from
StoreBatches == {<<RowA, RowD>>, <<RowA2>>, <<RowD, RowBad>>}

\* the Booking rows present at the start; the others arrive later
InitialBookings == {1, 3, 4, 5}

\* the orders in which a query without order_by may return the rows of ids
Orders(ids) ==
    {o \in [1..Cardinality(ids) -> ids] : \A i, j \in 1..Cardinality(ids) : o[i] = o[j] => i = j}

----------------------------------------------------------------------------
\* The state machine

Init ==
    /\ contacts = <<>>
    /\ nextId = 1
    /\ interactions = <<>>
    /\ nextIid = 1
    /\ bookings = InitialBookings
    /\ report = [status |-> "none"]
    /\ lastOp = [kind |-> "none"]
    /\ preContacts = <<>>
    /\ preInteractions = <<>>
    /\ ops = 0
    /\ running = <<>>

\* the scheduling system stores a booking
AddBooking(b) ==
    /\ b \notin bookings
    /\ bookings' = bookings \cup {b}
    /\ lastOp' = [kind |-> "add_booking", booking |-> b]
    /\ UNCHANGED <<contacts, nextId, interactions, nextIid, report, preContacts,
                   preInteractions, ops, running>>

\* a task starts: the history variables keep the tables as it found them
Started ==
    /\ ops' = ops + 1
    /\ preContacts' = contacts
    /\ preInteractions' = interactions
    /\ UNCHANGED running

Import(org, rows, skip, upd, fault) ==
    /\ Started
    /\ LET r == ImportResult(contacts, nextId, org, rows, skip, upd, fault)
       IN /\ contacts' = r.contacts
          /\ nextId' = r.nextId
          /\ report' = r.report
          /\ lastOp' = [kind |-> "import", organizer |-> org, rows |-> rows,
                        skip |-> skip, upd |-> upd, fault |-> fault,
                        done |-> r.done,
                        repeat |-> /\ lastOp.kind = "import"
                                   /\ lastOp.organizer = org /\ lastOp.rows = rows
                                   /\ lastOp.skip = skip /\ lastOp.upd = upd
                                   /\ lastOp.fault = 0]
    /\ UNCHANGED <<interactions, nextIid, bookings>>

Merge(pid, ids, order, fault) ==
    /\ Started
    /\ LET r == MergeResult(contacts, interactions, pid, ids, order, fault)
       IN /\ contacts' = r.contacts
          /\ interactions' = r.interactions
          /\ report' = r.report
          /\ lastOp' = [kind |-> "merge", primary |-> pid, ids |-> ids]
    /\ UNCHANGED <<nextId, nextIid, bookings>>

SyncOne(cid, faulty) ==
    /\ Started
    /\ LET r == SyncOneResult(contacts, bookings, cid, faulty)
       IN /\ contacts' = r.contacts
          /\ report' = r.report
          /\ lastOp' = [kind |-> "sync_one", contact |-> cid,
                        repeat |-> /\ lastOp.kind = "sync_one"
                                   /\ lastOp.contact = cid
                                   /\ report.status = "success"]
    /\ UNCHANGED <<nextId, interactions, nextIid, bookings>>

SyncAll(before, at) ==
    /\ Started
    /\ at = 0 => before = DOMAIN contacts
    /\ at # 0 => /\ at \in DOMAIN contacts
                 /\ at \notin before
                 /\ NeedsSync(contacts[at], bookings)
    /\ LET r == SyncAllResult(contacts, bookings, before, at)
       IN /\ contacts' = r.contacts
          /\ report' = r.report
          /\ lastOp' = [kind |-> "sync_all"]
    /\ UNCHANGED <<nextId, interactions, nextIid, bookings>>

CreateFromBooking(bid, fault) ==
    /\ Started
    /\ LET r == CreateFromBookingResult(contacts, nextId, interactions, nextIid,
                                        bookings, bid, fault)
       IN /\ contacts' = r.contacts
          /\ nextId' = r.nextId
          /\ interactions' = r.interactions
          /\ nextIid' = r.nextIid
          /\ report' = r.report
          /\ lastOp' = [kind |-> "create_from_booking", booking |-> bid]
    /\ UNCHANGED bookings

\* the contacts the sweep would write, and the others
StaleIds == {c \in DOMAIN contacts : NeedsSync(contacts[c], bookings)}
Fresh == (DOMAIN contacts) \ StaleIds

\* the ids a caller may pass: those of the table and one that resolves to nothing
PassableIds == (DOMAIN contacts) \cup {nextId}

Next ==
    \/ \E b \in BookingIds : AddBooking(b)
    \/ /\ ops < MaxOps
       /\ \E rows \in StoreBatches, upd \in BOOLEAN : Import(1, rows, TRUE, upd, 0)
    \/ /\ ops < MaxOps
       /\ \E pid \in PassableIds, ids \in SUBSET PassableIds :
             /\ Cardinality(ids) <= MaxDups
             /\ \E order \in Orders(ids \cap DOMAIN contacts) :
                   \E fault \in 0..(Len(order) + 2) : Merge(pid, ids, order, fault)
    \/ /\ ops < MaxOps
       /\ \E cid \in PassableIds, faulty \in BOOLEAN : SyncOne(cid, faulty)
    \/ /\ ops < MaxOps
       /\ \E at \in {0} \cup StaleIds :
             \E before \in IF at = 0 THEN {DOMAIN contacts}
                                     ELSE {b \cup Fresh : b \in SUBSET (StaleIds \ {at})} :
                 SyncAll(before, at)
    \/ /\ ops < MaxOps
       /\ \E bid \in BookingIds, fault \in 0..3 : CreateFromBooking(bid, fault)

Spec == Init /\ [][Next]_vars

\* Imports alone.  The table starts as an earlier import left it; the first
\* import draws its arguments from every batch of up to MaxRows rows, and the same
\* call may then be submitted again.
SeedImports ==
    {ImportResult(<<>>, 1, 1, b, TRUE, FALSE, 0) : b \in StoreBatches \cup {<<>>}}

InitImport ==
    /\ \E s \in SeedImports : contacts = s.contacts /\ nextId = s.nextId
    /\ interactions = <<>>
    /\ nextIid = 1
    /\ bookings = InitialBookings
    /\ report = [status |-> "none"]
    /\ lastOp = [kind |-> "none"]
    /\ preContacts = <<>>
    /\ preInteractions = <<>>
    /\ ops = 0
    /\ running = <<>>

NextImport ==
    \/ /\ lastOp.kind = "none"
       /\ \E org \in OrganizerIds, rows \in Batches, skip, upd \in BOOLEAN :
             \E fault \in 0..Len(rows) : Import(org, rows, skip, upd, fault)
    \/ /\ lastOp.kind = "import"
       /\ ops < MaxImports
       /\ \E fault \in 0..Len(lastOp.rows) :
             Import(lastOp.organizer, lastOp.rows, lastOp.skip, lastOp.upd, fault)

SpecImport == InitImport /\ [][NextImport]_vars

----------------------------------------------------------------------------
\* Tasks on concurrent workers.  Each task is the code of the sections above cut
\* at its database accesses: one step per query or write, every write its own
\* commit, the task's local variables kept in its slot of `running`.

\* spec section 5: the storage layer keeps (organizer, email) unique, so an insert
\* of a pair that is stored raises
UniqueOwnerEmail == TRUE

\* Model.save() of an instance read earlier: UPDATE of the row with its primary
\* key, and INSERT of that row when the UPDATE matches none
Upsert(cs, id, c) == [i \in (DOMAIN cs) \cup {id} |-> IF i = id THEN c ELSE cs[i]]

Slots == {1, 2}

\* process_contact_import, lines 22-25
ImportTask(org, rows, skip, upd) ==
    [kind |-> "import", organizer |-> org, rows |-> rows, skip |-> skip, upd |-> upd,
     pc |-> "row", i |-> 1, found |-> 0, copy |-> <<>>,
     created |-> 0, updated |-> 0, skipped |-> 0, errors |-> 0, aborted |-> FALSE,
     report |-> [status |-> "none"],
     wrote |-> <<>>, during |-> FALSE]

\* merge_contact_data
MergeTask(pid, ids) ==
    [kind |-> "merge", primary |-> pid, ids |-> ids, pc |-> "get", copy |-> <<>>,
     dups |-> <<>>, todo |-> <<>>, total |-> 0, latest |-> NoDate,
     report |-> [status |-> "none"]]

\* update_single_contact_booking_stats
SyncTask(cid) ==
    [kind |-> "sync_one", contact |-> cid, pc |-> "get", copy |-> <<>>,
     report |-> [status |-> "none"],
     wrote |-> <<>>, during |-> FALSE]

\* lines 27 and 90-103: on to the next row, or out of the loop to the report
AdvanceImport(t) ==
    IF t.i + 1 > Len(t.rows)
    THEN [t EXCEPT !.i = t.i + 1, !.pc = "done", !.report = ImportReport(t)]
    ELSE [t EXCEPT !.i = t.i + 1, !.pc = "row"]

\* lines 110-115
AbortImport(t) ==
    [t EXCEPT !.pc = "done", !.aborted = TRUE,
              !.report = ImportReport([t EXCEPT !.aborted = TRUE])]

\* lines 31-33, 37-39 and 85-88: the row records an error, which reads row_num
RowFailed(t) ==
    IF RowNumBound
    THEN AdvanceImport([t EXCEPT !.errors = t.errors + 1, !.skipped = t.skipped + 1])
    ELSE AbortImport(t)

\* history: a merge with primary id has read the primary and not yet saved it
MergeHolds(id) ==
    \E q \in Slots : /\ running[q].kind = "merge"
                     /\ running[q].primary = id
                     /\ running[q].pc \in {"fetch", "loop", "save"}

\* lines 29-47 and 65-67: the row's checks and the lookup
ImportRead(p) ==
    LET t == running[p]
        row == t.rows[t.i]
        email == NormalizeEmail(row)
        id == FindContact(contacts, t.organizer, email)
    IN /\ t.kind = "import" /\ t.pc = "row"
       /\ running' = [running EXCEPT ![p] =
             IF email = <<>> \/ ~EmailShapeOk(email) THEN RowFailed(t)
             ELSE IF id # 0 /\ t.upd
                  THEN [t EXCEPT !.pc = "write", !.found = id, !.copy = contacts[id]]
             ELSE IF id # 0 /\ t.skip
                  THEN AdvanceImport([t EXCEPT !.skipped = t.skipped + 1])
             ELSE IF id # 0 THEN AdvanceImport(t)
             ELSE [t EXCEPT !.pc = "write", !.found = 0]]
       /\ UNCHANGED <<contacts, nextId, interactions, nextIid, bookings, report, lastOp,
                      preContacts, preInteractions, ops>>

\* lines 50-64 (save of the contact found) and 70-84 (create)
ImportWrite(p) ==
    LET t == running[p]
        row == t.rows[t.i]
        email == NormalizeEmail(row)
        saved == UpdatedContact(t.copy, row)
        taken == \E c \in DOMAIN contacts : /\ contacts[c].organizer = t.organizer
                                            /\ contacts[c].email = email
    IN /\ t.kind = "import" /\ t.pc = "write"
       /\ IF t.found # 0
          THEN /\ contacts' = Upsert(contacts, t.found, saved)
               /\ nextId' = nextId
               /\ running' = [running EXCEPT ![p] =
                     AdvanceImport([t EXCEPT !.updated = t.updated + 1,
                                             !.wrote = saved,
                                             !.during = MergeHolds(t.found)])]
          ELSE IF UniqueOwnerEmail /\ taken
          THEN /\ running' = [running EXCEPT ![p] = RowFailed(t)]
               /\ UNCHANGED <<contacts, nextId>>
          ELSE /\ contacts' = contacts @@ (nextId :> NewContact(t.organizer, email, row))
               /\ nextId' = nextId + 1
               /\ running' = [running EXCEPT ![p] =
                     AdvanceImport([t EXCEPT !.created = t.created + 1])]
       /\ UNCHANGED <<interactions, nextIid, bookings, report, lastOp,
                      preContacts, preInteractions, ops>>

\* lines 122 and 128
MergeGet(p) ==
    LET t == running[p]
    IN /\ t.kind = "merge" /\ t.pc = "get"
       /\ running' = [running EXCEPT ![p] =
             IF t.primary \notin DOMAIN contacts
             THEN [t EXCEPT !.pc = "done",
                            !.report = [status |-> "error", message |-> "primary_not_found"]]
             ELSE [t EXCEPT !.pc = "fetch", !.copy = contacts[t.primary],
                            !.latest = contacts[t.primary].last_booking_date]]
       /\ UNCHANGED <<contacts, nextId, interactions, nextIid, bookings, report, lastOp,
                      preContacts, preInteractions, ops>>

\* line 130: the for statement evaluates the queryset of line 123
MergeFetch(p, order) ==
    LET t == running[p]
        found == t.ids \cap DOMAIN contacts
    IN /\ t.kind = "merge" /\ t.pc = "fetch"
       /\ order \in Orders(found)
       /\ running' = [running EXCEPT ![p] =
             [t EXCEPT !.pc = IF order = <<>> THEN "save" ELSE "loop",
                       !.dups = [d \in found |-> contacts[d]],
                       !.todo = order]]
       /\ UNCHANGED <<contacts, nextId, interactions, nextIid, bookings, report, lastOp,
                      preContacts, preInteractions, ops>>

\* lines 131-153: one duplicate
MergeAbsorb(p) ==
    LET t == running[p]
        st == MergeLoop([primary |-> t.copy, total |-> t.total, latest |-> t.latest,
                         interactions |-> interactions, aborted |-> FALSE],
                        t.primary, t.dups, <<Head(t.todo)>>, 1, 0)
    IN /\ t.kind = "merge" /\ t.pc = "loop"
       /\ interactions' = st.interactions
       /\ running' = [running EXCEPT ![p] =
             [t EXCEPT !.pc = IF Tail(t.todo) = <<>> THEN "save" ELSE "loop",
                       !.copy = st.primary, !.total = st.total, !.latest = st.latest,
                       !.todo = Tail(t.todo)]]
       /\ UNCHANGED <<contacts, nextId, nextIid, bookings, report, lastOp,
                      preContacts, preInteractions, ops>>

\* lines 156-159
MergeSave(p) ==
    LET t == running[p]
    IN /\ t.kind = "merge" /\ t.pc = "save"
       /\ contacts' = Upsert(contacts, t.primary, MergedPrimary(t.copy, t.total, t.latest))
       /\ running' = [running EXCEPT ![p] = [t EXCEPT !.pc = "delete"]]
       /\ UNCHANGED <<nextId, interactions, nextIid, bookings, report, lastOp,
                      preContacts, preInteractions, ops>>

\* lines 162-168
MergeDelete(p) ==
    LET t == running[p]
    IN /\ t.kind = "merge" /\ t.pc = "delete"
       /\ contacts' = DeleteContacts(contacts, t.ids)
       /\ interactions' = DeleteInteractionsOf(interactions, t.ids)
       /\ running' = [running EXCEPT ![p] =
             [t EXCEPT !.pc = "done",
                       !.report = [status |-> "success", message |-> "merged",
                                   merged_count |-> MergedCount(t.ids, DOMAIN t.dups)]]]
       /\ UNCHANGED <<nextId, nextIid, bookings, report, lastOp,
                      preContacts, preInteractions, ops>>

\* line 188
SyncGet(p) ==
    LET t == running[p]
    IN /\ t.kind = "sync_one" /\ t.pc = "get"
       /\ running' = [running EXCEPT ![p] =
             IF t.contact \notin DOMAIN contacts
             THEN [t EXCEPT !.pc = "done",
                            !.report = [status |-> "error", message |-> "contact_not_found"]]
             ELSE [t EXCEPT !.pc = "save", !.copy = contacts[t.contact]]]
       /\ UNCHANGED <<contacts, nextId, interactions, nextIid, bookings, report, lastOp,
                      preContacts, preInteractions, ops>>

\* lines 191-209; no booking is stored while the tasks run, so the two Booking
\* queries see the table the save sees
SyncSave(p) ==
    LET t == running[p]
        saved == SyncedContact(t.copy, bookings)
    IN /\ t.kind = "sync_one" /\ t.pc = "save"
       /\ contacts' = Upsert(contacts, t.contact, saved)
       /\ running' = [running EXCEPT ![p] =
             [t EXCEPT !.pc = "done", !.wrote = saved,
                       !.during = MergeHolds(t.contact),
                       !.report = [status |-> "success", message |-> "updated",
                                   total_bookings |-> saved.total_bookings]]]
       /\ UNCHANGED <<nextId, interactions, nextIid, bookings, report, lastOp,
                      preContacts, preInteractions, ops>>

\* the batches of the concurrent imports
RaceBatches == {<<RowA>>, <<RowA2>>, <<RowD, RowA2>>}

\* the tables the concurrent tasks may find: empty, or as an import and a
\* booking-triggered upsert left it
SeedStores ==
    LET e == [contacts |-> <<>>, nextId |-> 1, interactions |-> <<>>, nextIid |-> 1]
        i == ImportResult(<<>>, 1, 1, <<RowA, RowD>>, TRUE, FALSE, 0)
        c == CreateFromBookingResult(i.contacts, i.nextId, <<>>, 1, InitialBookings, 4, 0)
    IN {e, [contacts |-> c.contacts, nextId |-> c.nextId,
            interactions |-> c.interactions, nextIid |-> c.nextIid]}

ImportTasks == {ImportTask(1, rows, TRUE, upd) : rows \in RaceBatches, upd \in BOOLEAN}

MergeTasks(cs) ==
    {MergeTask(pid, ids) : pid \in DOMAIN cs,
                           ids \in {x \in SUBSET DOMAIN cs : x # {} /\ Cardinality(x) <= MaxDups}}

SyncTasks(cs) == {SyncTask(cid) : cid \in DOMAIN cs}

InitRace ==
    /\ \E s \in SeedStores :
          /\ contacts = s.contacts /\ nextId = s.nextId
          /\ interactions = s.interactions /\ nextIid = s.nextIid
          /\ preContacts = s.contacts
          /\ preInteractions = s.interactions
          /\ \E a \in ImportTasks \cup MergeTasks(s.contacts),
                b \in ImportTasks \cup SyncTasks(s.contacts) : running = <<a, b>>
    /\ bookings = InitialBookings
    /\ report = [status |-> "none"]
    /\ lastOp = [kind |-> "none"]
    /\ ops = 0

NextRace ==
    \E p \in Slots :
        \/ ImportRead(p)
        \/ ImportWrite(p)
        \/ MergeGet(p)
        \/ /\ running[p].kind = "merge"
           /\ \E order \in Orders(running[p].ids \cap DOMAIN contacts) :
                 MergeFetch(p, order)
        \/ MergeAbsorb(p)
        \/ MergeSave(p)
        \/ MergeDelete(p)
        \/ SyncGet(p)
        \/ SyncSave(p)

SpecRace == InitRace /\ [][NextRace]_vars

----------------------------------------------------------------------------
\* Properties

ImportRan == lastOp.kind = "import"
MergeRan == lastOp.kind = "merge"

\* a merge that returned success and whose duplicate ids do not name the primary
MergedOthers ==
    /\ MergeRan
    /\ report.status = "success"
    /\ lastOp.primary \notin lastOp.ids

\* the duplicate ids that resolved to a contact when the merge started
Resolved == lastOp.ids \cap DOMAIN preContacts

RECURSIVE SumTotals(_, _)
SumTotals(cs, S) ==
    IF S = {} THEN 0
    ELSE LET x == CHOOSE y \in S : TRUE
         IN cs[x].total_bookings + SumTotals(cs, S \ {x})

MaxPresentDate(cs, S) ==
    LET ds == {cs[x].last_booking_date : x \in S} \ {NoDate}
    IN IF ds = {} THEN NoDate ELSE CHOOSE d \in ds : \A e \in ds : e <= d

\* row i of the last import addresses contact c of the table
Addresses(i, c) ==
    /\ lastOp.organizer = c.organizer
    /\ NormalizeEmail(lastOp.rows[i]) = c.email

\* C1: a row that fails (missing email, invalid email, storage fault) does not abort
\* the batch: every row of the batch is entered, each failed row is counted as
\* skipped, and the report carries the three counts.
C1_RowFailureIsolated ==
    (ImportRan /\ lastOp.organizer \in Users) =>
        /\ lastOp.done.processed = Len(lastOp.rows)
        /\ "created_count" \in DOMAIN report
        /\ report.skipped_count >= lastOp.done.failedRows

\* C2: after a successful merge of duplicates other than the primary, no duplicate
\* id names a contact, and every interaction that referenced a duplicate before the
\* merge still exists and references the primary, which exists.
C2_MergeMovesInteractions ==
    MergedOthers =>
        /\ \A d \in lastOp.ids : d \notin DOMAIN contacts
        /\ lastOp.primary \in DOMAIN contacts
        /\ \A i \in DOMAIN preInteractions :
              preInteractions[i].contact \in lastOp.ids =>
                  /\ i \in DOMAIN interactions
                  /\ interactions[i].contact = lastOp.primary

C2_Witness ==
    /\ MergedOthers
    /\ Cardinality(Resolved) = 2
    /\ \E i \in DOMAIN preInteractions : preInteractions[i].contact \in lastOp.ids

\* C3: a merge that returns an error leaves both tables as it found them.
C3_MergeAllOrNothing ==
    (MergeRan /\ report.status = "error") =>
        /\ contacts = preContacts
        /\ interactions = preInteractions

\* C4: after a successful merge of duplicates other than the primary, the primary's
\* total_bookings is its previous value plus the sum over the resolved duplicates
\* and its last_booking_date is the greatest present date among the primary and the
\* resolved duplicates (none when none is present), whatever order the duplicates
\* were read in.
C4_MergeSumAndMax ==
    MergedOthers =>
        /\ contacts[lastOp.primary].total_bookings =
               preContacts[lastOp.primary].total_bookings + SumTotals(preContacts, Resolved)
        /\ contacts[lastOp.primary].last_booking_date =
               MaxPresentDate(preContacts, Resolved \cup {lastOp.primary})

C4_Witness ==
    /\ MergedOthers
    /\ Cardinality(Resolved) = 2
    /\ SumTotals(preContacts, Resolved) > 0
    /\ \E d \in Resolved : preContacts[d].last_booking_date = NoDate
    /\ contacts[lastOp.primary].last_booking_date #
           preContacts[lastOp.primary].last_booking_date

\* C5: the second of two identical imports in a row with update_existing = false and
\* skip_duplicates = true (known organizer, no storage fault) leaves the Contact
\* table as it found it and reports created_count = 0 and updated_count = 0.
C5_ReimportIsNoop ==
    (/\ ImportRan /\ lastOp.repeat /\ lastOp.fault = 0
     /\ lastOp.skip /\ ~lastOp.upd /\ lastOp.organizer \in Users) =>
        /\ contacts = preContacts
        /\ "created_count" \in DOMAIN report
        /\ report.created_count = 0
        /\ report.updated_count = 0

C7_ImportStatus ==
    ImportRan =>
        /\ (lastOp.organizer \in Users /\ lastOp.done.failedRows = 0)
               => report.status = "success"
        /\ (lastOp.done.failedRows > 0 /\ lastOp.done.created + lastOp.done.updated > 0)
               => report.status = "partial_success"
        /\ report.status = "error" => lastOp.done.processed = 0

\* C8: merged_count of a successful merge is the number of duplicate ids that
\* resolved to a contact.
C8_MergedCountIsResolved ==
    MergedOthers => report.merged_count = Cardinality(Resolved)

\* C9: a single-contact sync that follows a successful single-contact sync of the
\* same contact, with no booking stored in between, leaves the contact's
\* total_bookings and last_booking_date as the first call left them.
C9_SyncOneIdempotent ==
    (lastOp.kind = "sync_one" /\ lastOp.repeat) =>
        /\ contacts[lastOp.contact].total_bookings =
               preContacts[lastOp.contact].total_bookings
        /\ contacts[lastOp.contact].last_booking_date =
               preContacts[lastOp.contact].last_booking_date

C9_Witness ==
    /\ lastOp.kind = "sync_one" /\ lastOp.repeat /\ report.status = "success"
    /\ contacts[lastOp.contact].total_bookings > 0
    /\ contacts[lastOp.contact].last_booking_date # NoDate

\* C10: every stored email is lower-cased and trimmed, and no two contacts of one
\* organizer have the same normalized email.
C10_EmailsNormalizedAndUnique ==
    /\ \A c \in DOMAIN contacts :
          contacts[c].email = LowerStr(Strip(contacts[c].email))
    /\ \A c, d \in DOMAIN contacts :
          (/\ c # d
           /\ contacts[c].organizer = contacts[d].organizer
           /\ LowerStr(Strip(contacts[c].email)) = LowerStr(Strip(contacts[d].email)))
          => FALSE

\* C12: a successful merge leaves every resolved duplicate of another organizer
\* than the primary's in the table as it was, and afterwards every interaction has
\* the organizer of the contact it references.
C12_MergeWithinOwner ==
    (MergeRan /\ report.status = "success") =>
        /\ \A d \in Resolved :
              preContacts[d].organizer # preContacts[lastOp.primary].organizer =>
                  /\ d \in DOMAIN contacts
                  /\ contacts[d] = preContacts[d]
        /\ \A i \in DOMAIN interactions :
              interactions[i].contact \in DOMAIN contacts =>
                  interactions[i].organizer = contacts[interactions[i].contact].organizer

\* C13: after a batch sync that completed, every contact has the statistics the
\* single-contact sync computes from the Booking table (count of confirmed bookings
\* of its organizer and email, start time of the latest, none without one), and
\* updated_count is the number of contacts whose statistics differed from those.
C13_SyncAllRecomputesAll ==
    (lastOp.kind = "sync_all" /\ report.status = "success") =>
        /\ \A c \in DOMAIN contacts : contacts[c] = SyncedContact(contacts[c], bookings)
        /\ report.updated_count =
               Cardinality({c \in DOMAIN preContacts :
                               preContacts[c] # SyncedContact(preContacts[c], bookings)})

\* C14: after create_contact_from_booking returns success, the contact it wrote
\* (the one its new interaction references) has the total_bookings and
\* last_booking_date the single-contact sync computes for it from the Booking table.
C14_BookingStatsAsSyncOne ==
    (lastOp.kind = "create_from_booking" /\ report.status = "success") =>
        LET c == interactions[nextIid - 1].contact
        IN /\ contacts[c].total_bookings = SyncedContact(contacts[c], bookings).total_bookings
           /\ contacts[c].last_booking_date =
                  SyncedContact(contacts[c], bookings).last_booking_date

\* C19: after a successful merge the primary is in the table, and the contacts the
\* merge removed are among the duplicate ids other than the primary's.
C19_PrimarySurvivesMerge ==
    (MergeRan /\ report.status = "success") =>
        /\ lastOp.primary \in DOMAIN contacts
        /\ (DOMAIN preContacts) \ (DOMAIN contacts) \subseteq lastOp.ids \ {lastOp.primary}

\* an email with exactly one '@', followed by a non-empty domain that has a '.'
WellFormedEmail(e) ==
    /\ e # <<>>
    /\ Cardinality({i \in 1..Len(e) : e[i] = "@"}) = 1
    /\ AfterLastAt(e) # <<>>
    /\ Contains(AfterLastAt(e), ".")

\* C15: every contact an import created or changed has an email with exactly one
\* '@' followed by a non-empty domain that contains a '.'.
C15_ImportedEmailsWellFormed ==
    ImportRan =>
        \A c \in DOMAIN contacts :
            (c \notin DOMAIN preContacts \/ contacts[c] # preContacts[c])
                => WellFormedEmail(contacts[c].email)

\* C16: in the report of an import that ran to its end, created_count,
\* updated_count and skipped_count add up to the number of rows of the batch.
C16_EveryRowCounted ==
    (ImportRan /\ "created_count" \in DOMAIN report) =>
        report.created_count + report.updated_count + report.skipped_count
            = Len(lastOp.rows)

\* the row passes the checks of lines 30 and 36
ValidRow(row) == NormalizeEmail(row) # <<>> /\ EmailShapeOk(NormalizeEmail(row))

\* the normalized emails of the last import's rows
BatchEmails == {NormalizeEmail(lastOp.rows[i]) : i \in 1..Len(lastOp.rows)}

Stored(cs, org, e) == {c \in DOMAIN cs : cs[c].organizer = org /\ cs[c].email = e}

\* the emails of the batch that no contact of the organizer had before it
NewEmails == {e \in BatchEmails : Stored(preContacts, lastOp.organizer, e) = {}}

\* an import of valid rows for a known organizer during which no write raised
ValidImportRan ==
    /\ ImportRan /\ lastOp.organizer \in Users /\ lastOp.fault = 0
    /\ \A i \in 1..Len(lastOp.rows) : ValidRow(lastOp.rows[i])

\* C17: after an import of valid rows, each email of the batch names exactly one
\* contact of the organizer; one contact was created per email that was not
\* stored before, however many rows carry it, and every other row was resolved as
\* an existing contact: updated when update_existing, else skipped when
\* skip_duplicates.
C17_EarlierRowsVisible ==
    ValidImportRan =>
        /\ \A e \in BatchEmails : Cardinality(Stored(contacts, lastOp.organizer, e)) = 1
        /\ report.created_count = Cardinality(NewEmails)
        /\ Cardinality(DOMAIN contacts) =
               Cardinality(DOMAIN preContacts) + Cardinality(NewEmails)
        /\ lastOp.upd =>
               report.updated_count = Len(lastOp.rows) - Cardinality(NewEmails)
        /\ (~lastOp.upd /\ lastOp.skip) =>
               report.skipped_count = Len(lastOp.rows) - Cardinality(NewEmails)

C17_Witness ==
    /\ ValidImportRan /\ lastOp.upd
    /\ Len(lastOp.rows) = 2
    /\ NormalizeEmail(lastOp.rows[1]) = NormalizeEmail(lastOp.rows[2])
    /\ lastOp.rows[1] # lastOp.rows[2]
    /\ Cardinality(NewEmails) = 1
    /\ preContacts # <<>>
    /\ report.created_count = 1 /\ report.updated_count = 1

\* C18: an import whose report has status error created no contact and changed
\* none.
C18_ErrorMeansNothingDone ==
    (ImportRan /\ report.status = "error") =>
        /\ contacts = preContacts
        /\ lastOp.done.created = 0
        /\ lastOp.done.updated = 0

\* every concurrent task has returned
AllDone == running # <<>> /\ \A p \in Slots : running[p].pc = "done"

\* task t is an import with a valid row whose normalized email is e
Carries(t, e) ==
    /\ t.kind = "import"
    /\ \E i \in 1..Len(t.rows) : ValidRow(t.rows[i]) /\ NormalizeEmail(t.rows[i]) = e

\* the emails that both concurrent tasks import for one organizer and that no
\* contact of that organizer had when they started
SharedNewEmails ==
    {e \in {NormalizeEmail(r) : r \in Rows} :
        /\ Carries(running[1], e) /\ Carries(running[2], e)
        /\ running[1].organizer = running[2].organizer
        /\ Stored(preContacts, running[1].organizer, e) = {}}

\* C11: when two concurrent imports of one organizer both carry an email that was
\* not stored, then after both have returned exactly one contact of the organizer
\* has that email, neither import recorded a failed row and neither returned
\* status error.
C11_ConcurrentImportsOneContact ==
    AllDone =>
        \A e \in SharedNewEmails :
            /\ Cardinality(Stored(contacts, running[1].organizer, e)) = 1
            /\ \A p \in Slots : /\ running[p].report.status # "error"
                               /\ running[p].errors = 0

\* task o's last write went to contact id while a merge with that primary was
\* between its read and its save of the primary
WroteUnderMerge(o, id) ==
    /\ running[o].kind \in {"import", "sync_one"}
    /\ running[o].during
    /\ \/ running[o].kind = "import" /\ running[o].found = id
       \/ running[o].kind = "sync_one" /\ running[o].contact = id

\* C20: when an import or a single-contact sync committed its last write to
\* contact A while a merge with primary A (not among its own duplicates) was between
\* its read and its save of A, then after both have returned and the merge
\* succeeded, A has the first_name, last_name, phone, company and job_title that
\* write stored, and the total_bookings and last_booking_date the merge's sum and
\* maximum give over the values that write stored.
C20_NoLostWriteUnderMerge ==
    AllDone =>
        \A m, o \in Slots :
            (/\ running[m].kind = "merge"
             /\ running[m].report.status = "success"
             /\ running[m].primary \notin running[m].ids
             /\ WroteUnderMerge(o, running[m].primary)) =>
                LET A == running[m].primary
                    w == running[o].wrote
                    d == running[m].dups
                IN /\ A \in DOMAIN contacts
                   /\ \A f \in {"first_name", "last_name", "phone", "company", "job_title"} :
                         contacts[A][f] = w[f]
                   /\ contacts[A].total_bookings =
                          w.total_bookings + SumTotals(d, DOMAIN d)
                   /\ contacts[A].last_booking_date =
                          MaxPresentDate(d @@ (A :> w), (DOMAIN d) \cup {A})

====
